---- MODULE Spec2Model ----
(***************************************************************************)
(* State-machine model of segmenter.py: the SegmentationVisualization      *)
(* controller (point stack, current SAM mask, circle and annotation        *)
(* stacks, the matplotlib artists it owns) and its two click handlers.     *)
(*                                                                         *)
(* Python values are modelled as follows.                                  *)
(*   None / an object      : <<>> / <<v>>  (None, Some(v))                 *)
(*   a mask (h x w array)  : a function mask[y][x], y in 0..h-1,           *)
(*                           x in 0..w-1, of BOOLEAN                       *)
(*   a circle (cx, cy, r)  : [cx, cy, den, r2] with centre (cx/den,        *)
(*                           cy/den) and r*r = r2/(den*den), all integers *)
(*   an exception          : the field "raised" of the handler state; a    *)
(*                           step that finds it set does nothing, as the   *)
(*                           rest of a Python handler is skipped           *)
(* Besides the object's fields the state holds an observation of the last  *)
(* handler call: its name, the collaborator calls it made and the order of *)
(* its steps.                                                              *)
(***************************************************************************)
EXTENDS Integers, Sequences, FiniteSets, TLC

\* Bounds of the model.
MaxCoord == 2     \* click coordinates are 1..MaxCoord
W == 2            \* mask width in pixels
H == 2            \* mask height in pixels
MaxCand == 2      \* longest candidate list the predictor returns
MaxScore == 2     \* predictor scores are 1..MaxScore
MaxAdds == 2      \* add_point calls in one session

VARIABLES
    xpoints, ypoints, scatter_plot,      \* lines 47-49
    current_mask, mask_plot,             \* lines 52-53
    circle_shapes, annotations,          \* lines 56-57
    all_points,                          \* line 165 (absent until add_circle)
    ax_images, ax_collections, ax_artists, ax_texts,  \* what self.ax displays
    next_id,         \* identity of the next circle/annotation object
    point_ids,       \* for each stored point, the add_point call that stored it
    op,              \* the handler called last
    before,          \* op and point stack at the entry of the last handler
    predict_log,     \* calls of predictor.predict in the last handler
    solver_log,      \* calls of sec.make_circle in the last handler
    trace,           \* steps of the last handler, in order
    raised,          \* exception that ended the last handler, or "none"
    event,           \* the mouse event dispatched last, if any
    process          \* the script around the controller: lines 210-230

vars == << xpoints, ypoints, scatter_plot, current_mask, mask_plot,
           circle_shapes, annotations, all_points,
           ax_images, ax_collections, ax_artists, ax_texts,
           next_id, point_ids, op, before, predict_log, solver_log, trace, raised,
           event, process >>

None == << >>
Some(v) == << v >>

Last(s) == s[Len(s)]
Front(s) == SubSeq(s, 1, Len(s) - 1)

\* list.remove / Artist.remove: drop the first occurrence of a
RECURSIVE Without(_, _)
Without(s, a) ==
    IF s = << >> THEN << >>
    ELSE IF Head(s) = a THEN Tail(s)
    ELSE << Head(s) >> \o Without(Tail(s), a)

Count(s, e) == Cardinality({i \in DOMAIN s : s[i] = e})

(***************************************************************************)
(* Values the collaborators exchange.                                      *)
(***************************************************************************)
Coords == 1..MaxCoord
Scores == 1..MaxScore

\* every h x w boolean array, h = H, w = W
Masks == [0..(H - 1) -> [0..(W - 1) -> BOOLEAN]]

EmptyMask == [y \in 0..(H - 1) |-> [x \in 0..(W - 1) |-> FALSE]]
OnePixelMask == [y \in 0..(H - 1) |-> [x \in 0..(W - 1) |-> (x = 0 /\ y = 0)]]
RowMask == [y \in 0..(H - 1) |-> [x \in 0..(W - 1) |-> (y = 0)]]
FullMask == [y \in 0..(H - 1) |-> [x \in 0..(W - 1) |-> TRUE]]

\* the masks the predictor is taken to answer with: all background, a
\* single pixel, a row, everything
SamMasks == {EmptyMask, OnePixelMask, RowMask, FullMask}

\* predictor.predict returns (masks, scores, logits); zip(masks, scores) is
\* a list of (mask, score) pairs, here 1..maxLen of them
PredictResults(maxLen, maxScore) ==
    UNION {[1..k -> [mask : SamMasks, score : 1..maxScore]] : k \in 1..maxLen}

mask_shape(mask) ==
    [h |-> Cardinality(DOMAIN mask), w |-> Cardinality(DOMAIN mask[0])]

(***************************************************************************)
(* sorted(masks_scores, key=score)[-1][0]: Python's sort is stable, so     *)
(* equal scores keep their order and the last of the largest is taken.     *)
(***************************************************************************)
\* the insertion of an unstable sort: e goes before its equals
sorted_insert_before_equals(t, e) ==
    LET k == Cardinality({i \in DOMAIN t : t[i].score < e.score})
    IN  SubSeq(t, 1, k) \o << e >> \o SubSeq(t, k + 1, Len(t))

sorted_insert(t, e) ==
    LET k == Cardinality({i \in DOMAIN t : t[i].score <= e.score})
    IN  SubSeq(t, 1, k) \o << e >> \o SubSeq(t, k + 1, Len(t))

RECURSIVE sorted_by_score(_)
sorted_by_score(s) ==
    IF s = << >> THEN << >>
    ELSE sorted_insert(sorted_by_score(Front(s)), Last(s))

(***************************************************************************)
(* add_circle's scan of the mask: x outermost, y innermost, one (x, y)     *)
(* appended for each true cell.                                            *)
(***************************************************************************)
\* the scan with each cell appended as (y, x)
collect_points_row_first(mask) ==
    LET h == mask_shape(mask).h
        w == mask_shape(mask).w
        cells == [k \in 1..(w * h) |-> << (k - 1) \div h, (k - 1) % h >>]
    IN  [i \in DOMAIN SelectSeq(cells, LAMBDA c : mask[c[2]][c[1]]) |->
            << SelectSeq(cells, LAMBDA c : mask[c[2]][c[1]])[i][2],
               SelectSeq(cells, LAMBDA c : mask[c[2]][c[1]])[i][1] >>]

collect_points(mask) ==
    LET h == mask_shape(mask).h
        w == mask_shape(mask).w
        cells == [k \in 1..(w * h) |-> << (k - 1) \div h, (k - 1) % h >>]
    IN  SelectSeq(cells, LAMBDA c : mask[c[2]][c[1]])

(***************************************************************************)
(* sec.make_circle: None for no points, else the smallest circle that      *)
(* encloses them.  That circle is a point, or has two of the points as a   *)
(* diameter, or passes through three of them; centre and squared radius    *)
(* are kept exact over a common denominator den.                           *)
(***************************************************************************)
Sq(n) == n * n

circle_of_one(p) == [cx |-> p[1], cy |-> p[2], den |-> 1, r2 |-> 0]

circle_of_two(a, b) ==
    [cx |-> a[1] + b[1], cy |-> a[2] + b[2], den |-> 2,
     r2 |-> Sq(a[1] - b[1]) + Sq(a[2] - b[2])]

circum_den(a, b, c) ==
    2 * (a[1] * (b[2] - c[2]) + b[1] * (c[2] - a[2]) + c[1] * (a[2] - b[2]))

circle_of_three(a, b, c) ==
    LET d  == circum_den(a, b, c)
        sg == IF d < 0 THEN -1 ELSE 1
        na == Sq(a[1]) + Sq(a[2])
        nb == Sq(b[1]) + Sq(b[2])
        nc == Sq(c[1]) + Sq(c[2])
        ux == na * (b[2] - c[2]) + nb * (c[2] - a[2]) + nc * (a[2] - b[2])
        uy == na * (c[1] - b[1]) + nb * (a[1] - c[1]) + nc * (b[1] - a[1])
    IN  [cx |-> sg * ux, cy |-> sg * uy, den |-> sg * d,
         r2 |-> Sq(a[1] * d - ux) + Sq(a[2] * d - uy)]

is_in_circle(c, p) == Sq(p[1] * c.den - c.cx) + Sq(p[2] * c.den - c.cy) <= c.r2

not_larger(c1, c2) == c1.r2 * Sq(c2.den) <= c2.r2 * Sq(c1.den)

smallest_enclosing_circle(points) ==
    LET n == Len(points)
        cands == {circle_of_one(points[i]) : i \in 1..n}
                 \cup {circle_of_two(points[i[1]], points[i[2]]) :
                         i \in {j \in (1..n) \X (1..n) : j[1] < j[2]}}
                 \cup {circle_of_three(points[i[1]], points[i[2]], points[i[3]]) :
                         i \in {j \in (1..n) \X (1..n) \X (1..n) :
                                  /\ j[1] < j[2]
                                  /\ j[2] < j[3]
                                  /\ circum_den(points[j[1]], points[j[2]], points[j[3]]) # 0}}
        encl == {c \in cands : \A i \in 1..n : is_in_circle(c, points[i])}
    IN  CHOOSE c \in encl :
            \A c2 \in encl : not_larger(c, c2) /\ (not_larger(c2, c) => c.den <= c2.den)

\* the circles of the predictor's masks, computed once
circle_table ==
    [points \in {collect_points(m) : m \in SamMasks} \ {<< >>} |->
        smallest_enclosing_circle(points)]

make_circle(points) ==
    IF points = << >> THEN None
    ELSE IF points \in DOMAIN circle_table THEN Some(circle_table[points])
    ELSE Some(smallest_enclosing_circle(points))

(***************************************************************************)
(* The handler state: the object's fields and the observation of the       *)
(* handler that is running.                                                *)
(***************************************************************************)
Self ==
    [xpoints |-> xpoints, ypoints |-> ypoints, scatter_plot |-> scatter_plot,
     current_mask |-> current_mask, mask_plot |-> mask_plot,
     circle_shapes |-> circle_shapes, annotations |-> annotations,
     all_points |-> all_points,
     ax_images |-> ax_images, ax_collections |-> ax_collections,
     ax_artists |-> ax_artists, ax_texts |-> ax_texts,
     next_id |-> next_id, point_ids |-> point_ids,
     op |-> op, before |-> before, predict_log |-> predict_log,
     solver_log |-> solver_log, trace |-> trace, raised |-> raised,
     event |-> event, process |-> process]

\* a handler starts: nothing observed yet, no exception pending
Entry(name) ==
    [Self EXCEPT !.op = name,
                 !.before = [op |-> op, xpoints |-> xpoints, ypoints |-> ypoints],
                 !.predict_log = << >>, !.solver_log = << >>,
                 !.trace = << >>, !.raised = "none"]

Install(s) ==
    /\ xpoints' = s.xpoints
    /\ ypoints' = s.ypoints
    /\ scatter_plot' = s.scatter_plot
    /\ current_mask' = s.current_mask
    /\ mask_plot' = s.mask_plot
    /\ circle_shapes' = s.circle_shapes
    /\ annotations' = s.annotations
    /\ all_points' = s.all_points
    /\ ax_images' = s.ax_images
    /\ ax_collections' = s.ax_collections
    /\ ax_artists' = s.ax_artists
    /\ ax_texts' = s.ax_texts
    /\ next_id' = s.next_id
    /\ point_ids' = s.point_ids
    /\ op' = s.op
    /\ before' = s.before
    /\ predict_log' = s.predict_log
    /\ solver_log' = s.solver_log
    /\ trace' = s.trace
    /\ raised' = s.raised
    /\ event' = s.event
    /\ process' = s.process

did(s, step) == [s EXCEPT !.trace = Append(@, step)]
raise(s, exception) == [s EXCEPT !.raised = exception]

(***************************************************************************)
(* draw_mask                                                               *)
(***************************************************************************)
\* the old overlay forgotten but left on the axes
forget_mask_plot(s) ==
    IF s.mask_plot # None
    THEN did([s EXCEPT !.mask_plot = None], "mask_plot.remove")
    ELSE s

\* lines 64-67
remove_mask_plot(s) ==
    IF s.mask_plot # None
    THEN did([s EXCEPT !.ax_images = Without(@, s.mask_plot[1]),
                       !.mask_plot = None], "mask_plot.remove")
    ELSE s

\* the prompt taken from the first click instead of the last
prompt_index_first(s) == 1

\* lines 72-73: the prompt is the last click, labelled foreground
prompt_index(s) == Len(s.xpoints)

predict_call(s, result) ==
    [point_coords |-> << << s.xpoints[prompt_index(s)], s.ypoints[prompt_index(s)] >> >>,
     point_labels |-> << 1 >>,
     multimask_output |-> TRUE,
     xpoints |-> s.xpoints, ypoints |-> s.ypoints,   \* the stack at the call
     result |-> result]

\* the selection without the sort
select_last_returned(masks_scores) == Last(masks_scores).mask

\* lines 81-83
select_mask(masks_scores) == Last(sorted_by_score(masks_scores)).mask

\* lines 69-91
predict_and_show(s, result) ==
    IF Len(s.xpoints) = 0 THEN s
    ELSE
      LET s1 == did([s EXCEPT !.predict_log = Append(@, predict_call(s, result))],
                    "predict")
      IN  IF result = << >> THEN raise(s1, "IndexError")
          ELSE
            LET plot == [mask |-> select_mask(result)]
            IN  did([s1 EXCEPT !.current_mask = Some(plot.mask),
                               !.mask_plot = Some(plot),
                               !.ax_images = Append(@, plot)],
                    "imshow")

\* draw_mask with the emptiness test moved before the removal of the old plot
draw_mask_returns_early(s, result) ==
    IF s.raised # "none" \/ Len(s.xpoints) = 0 THEN s
    ELSE predict_and_show(remove_mask_plot(s), result)

draw_mask(s, result) ==
    IF s.raised # "none" THEN s
    ELSE predict_and_show(remove_mask_plot(s), result)

(***************************************************************************)
(* draw_points                                                             *)
(***************************************************************************)
draw_points(s) ==
    IF s.raised # "none" THEN s
    ELSE
      LET s1 == IF s.scatter_plot # None
                THEN did([s EXCEPT !.ax_collections = Without(@, s.scatter_plot[1]),
                                   !.scatter_plot = None], "scatter_plot.remove")
                ELSE s
          plot == [xs |-> s1.xpoints, ys |-> s1.ypoints]
      IN  did([s1 EXCEPT !.scatter_plot = Some(plot),
                         !.ax_collections = Append(@, plot)], "scatter")

(***************************************************************************)
(* add_circle.  circle[2] of None is a TypeError; np.pi * 0.0 * 0.0 is the *)
(* float 0.0 and an int divided by it is a ZeroDivisionError.  The         *)
(* sphericity pixels / (pi r^2) is kept as the fraction num/den of         *)
(* pixels / r^2.                                                           *)
(***************************************************************************)
add_circle(s) ==
    IF s.raised # "none" THEN s
    ELSE IF s.current_mask = None THEN raise(s, "AttributeError")
    ELSE
      LET pts == collect_points(s.current_mask[1])
          circle == make_circle(pts)
          s1 == did([s EXCEPT !.all_points = Some(pts),
                              !.solver_log = Append(@, pts)], "make_circle")
      IN  IF circle = None THEN raise(s1, "TypeError")
          ELSE IF circle[1].r2 = 0 THEN raise(s1, "ZeroDivisionError")
          ELSE
            LET c == circle[1]
                sphericity == [num |-> Len(pts) * Sq(c.den), den |-> c.r2]
                circle_shape == [id |-> s.next_id, circle |-> c]
                annotation == [id |-> s.next_id, text |-> sphericity, xy |-> c]
                s2 == did(s1, "print")
                s3 == did(did([s2 EXCEPT !.ax_artists = Append(@, circle_shape),
                                         !.circle_shapes = Append(@, circle_shape)],
                              "add_artist"), "circle_shapes.append")
            IN  did(did([s3 EXCEPT !.ax_texts = Append(@, annotation),
                                   !.annotations = Append(@, annotation)],
                        "annotate"), "annotations.append")

(***************************************************************************)
(* remove_circle: seq[-1] of an empty list is an IndexError                *)
(***************************************************************************)
\* the stacks popped with the visuals left on the axes
pop_circle_only(s) ==
    IF s.raised # "none" THEN s
    ELSE IF s.circle_shapes = << >> THEN raise(s, "IndexError")
    ELSE
      LET s1 == did(did([s EXCEPT !.circle_shapes = Front(@)],
                        "circle.remove"), "circle_shapes.pop")
      IN  IF s1.annotations = << >> THEN raise(s1, "IndexError")
          ELSE did(did([s1 EXCEPT !.annotations = Front(@)],
                       "annotation.remove"), "annotations.pop")

remove_circle(s) ==
    IF s.raised # "none" THEN s
    ELSE IF s.circle_shapes = << >> THEN raise(s, "IndexError")
    ELSE
      LET s1 == did(did([s EXCEPT !.ax_artists = Without(@, Last(s.circle_shapes)),
                                  !.circle_shapes = Front(@)],
                        "circle.remove"), "circle_shapes.pop")
      IN  IF s1.annotations = << >> THEN raise(s1, "IndexError")
          ELSE did(did([s1 EXCEPT !.ax_texts = Without(@, Last(s1.annotations)),
                                  !.annotations = Front(@)],
                       "annotation.remove"), "annotations.pop")

\* self.fig.canvas.draw_idle()
draw_idle(s) == IF s.raised # "none" THEN s ELSE did(s, "draw_idle")

(***************************************************************************)
(* add_point and remove_last_point                                         *)
(***************************************************************************)
\* lines 121-122
append_point(s, x, y) ==
    did(did([s EXCEPT !.xpoints = Append(@, x),
                      !.ypoints = Append(@, y),
                      !.point_ids = Append(@, s.next_id)],
            "xpoints.append"), "ypoints.append")

add_point(s, x, y, result) ==
    LET s1 == draw_idle(add_circle(draw_points(draw_mask(append_point(s, x, y), result))))
    IN  [s1 EXCEPT !.next_id = @ + 1]

\* the pop taken from the front of the lists
pop_first_point(s) ==
    IF s.xpoints = << >> \/ s.ypoints = << >> THEN raise(s, "IndexError")
    ELSE did(did([s EXCEPT !.xpoints = Tail(@),
                           !.ypoints = Tail(@),
                           !.point_ids = Tail(@)],
                 "xpoints.pop"), "ypoints.pop")

\* lines 142-143: list.pop() of an empty list is an IndexError
pop_point(s) ==
    IF s.xpoints = << >> \/ s.ypoints = << >> THEN raise(s, "IndexError")
    ELSE did(did([s EXCEPT !.xpoints = Front(@),
                           !.ypoints = Front(@),
                           !.point_ids = Front(@)],
                 "xpoints.pop"), "ypoints.pop")

\* lines 142-151
remove_last_point_body(s, result) ==
    draw_idle(remove_circle(draw_points(draw_mask(pop_point(s), result))))

\* remove_last_point without its guard
remove_last_point_unguarded(s, result) == remove_last_point_body(s, result)

remove_last_point(s, result) ==
    IF Len(s.xpoints) > 0 THEN remove_last_point_body(s, result) ELSE s

(***************************************************************************)
(* on_click: button 1 adds the point under the cursor, button 3 removes    *)
(* the last point, any other button does nothing.                          *)
(***************************************************************************)
Buttons == {1, 2, 3}

\* the events tried: button 1 released anywhere, the other buttons released
\* at one place (their coordinates are not read)
MouseEvents ==
    [button : {1}, xdata : Coords, ydata : Coords]
        \cup [button : Buttons \ {1}, xdata : {1}, ydata : {1}]

\* on_click with `else` in place of `elif event.button == 3`
on_click_else_removes(s, ev, result) ==
    IF ev.button = 1 THEN add_point(s, ev.xdata, ev.ydata, result)
    ELSE remove_last_point(s, result)

on_click(s, ev, result) ==
    IF ev.button = 1 THEN add_point(s, ev.xdata, ev.ydata, result)
    ELSE IF ev.button = 3 THEN remove_last_point(s, result)
    ELSE s

\* the canvas calls on_click(event)
ClickEntry(ev) == [Entry("on_click") EXCEPT !.event = Some(ev)]

(***************************************************************************)
(* The state machine.  The controller starts as __init__ leaves it; each   *)
(* action is one complete handler call.  The predictor answers each call   *)
(* with any candidate list.                                                *)
(***************************************************************************)
InitController ==
    /\ xpoints = << >>
    /\ ypoints = << >>
    /\ scatter_plot = None
    /\ current_mask = None
    /\ mask_plot = None
    /\ circle_shapes = << >>
    /\ annotations = << >>
    /\ all_points = None
    /\ ax_images = << >>
    /\ ax_collections = << >>
    /\ ax_artists = << >>
    /\ ax_texts = << >>
    /\ next_id = 1
    /\ point_ids = << >>
    /\ op = "__init__"
    /\ before = [op |-> "none", xpoints |-> << >>, ypoints |-> << >>]
    /\ predict_log = << >>
    /\ solver_log = << >>
    /\ trace = << >>
    /\ raised = "none"
    /\ event = None

(***************************************************************************)
(* The script: parse the argument, test the two files, load the model,     *)
(* construct the controller, whose constructor ends in plt.show().         *)
(***************************************************************************)
ImagePath == "image.png"
CheckpointFile == "sam_vit_h_4b8939.pth"

\* the command lines tried: no argument, an empty one, a path
Argvs == {<< >>, << "" >>, << ImagePath >>}

StartedProcess(argv, files) ==
    [pc |-> "start", argv |-> argv, files |-> files, exists_log |-> << >>,
     stdout |-> << >>, exit_status |-> None,
     sam_loaded |-> FALSE, constructed |-> FALSE]

exit(p, status) == [p EXCEPT !.pc = "exited", !.exit_status = Some(status)]
print(p, text) == [p EXCEPT !.stdout = Append(@, text)]
\* os.path.exists
path_exists(p, path) == path \in p.files
looked_up(p, path) == [p EXCEPT !.exists_log = Append(@, path)]

\* lines 220-230
load_and_show(p) ==
    LET p1 == looked_up(p, CheckpointFile)
    IN  IF ~ path_exists(p1, CheckpointFile)
        THEN exit(print(print(p1, "checkpoint missing"), "download hint"), 2)
        ELSE [p1 EXCEPT !.sam_loaded = TRUE, !.constructed = TRUE, !.pc = "show"]

\* both failures reported with the same status
main_one_status(p) ==
    IF p.argv = << >> THEN exit(print(p, "usage"), 2)
    ELSE IF p.argv[1] = "" THEN exit(print(print(p, "not found"), "help"), 1)
    ELSE
      LET p1 == looked_up(p, p.argv[1])
      IN  IF ~ path_exists(p1, p.argv[1])
          THEN exit(print(print(p1, "not found"), "help"), 1)
          ELSE LET p2 == load_and_show(p1)
               IN  IF p2.pc = "exited" THEN exit(p2, 1) ELSE p2

\* lines 211-230; parse_args without the positional argument prints the
\* usage and exits with status 2; `not args.image_path` spares the lookup
main(p) ==
    IF p.argv = << >> THEN exit(print(p, "usage"), 2)
    ELSE IF p.argv[1] = "" THEN exit(print(print(p, "not found"), "help"), 1)
    ELSE
      LET p1 == looked_up(p, p.argv[1])
      IN  IF ~ path_exists(p1, p.argv[1])
          THEN exit(print(print(p1, "not found"), "help"), 1)
          ELSE load_and_show(p1)

\* the process that shows the window: both files were found
ShowingProcess == main(StartedProcess(<< ImagePath >>, {ImagePath, CheckpointFile}))

Init == InitController /\ process = ShowingProcess

\* one candidate per answer: what matters here is which mask is selected
AddPoint ==
    /\ next_id <= MaxAdds
    /\ \E x \in Coords, y \in Coords, result \in PredictResults(1, 1) :
          Install(add_point(Entry("add_point"), x, y, result))

\* a right click is handled whatever the stack holds
RemoveLastPoint ==
    /\ Len(xpoints) >= 0
    /\ \E result \in PredictResults(1, 1) :
          Install(remove_last_point(Entry("remove_last_point"), result))

Next == AddPoint \/ RemoveLastPoint

Spec == Init /\ [][Next]_vars

\* the first click of a session, answered with every candidate list
AddFirstPoint ==
    /\ next_id <= MaxAdds
    /\ Len(xpoints) = 0
    /\ \E result \in PredictResults(MaxCand, MaxScore) :
          Install(add_point(Entry("add_point"), 1, 1, result))

NextSelect == AddFirstPoint \/ RemoveLastPoint

SpecSelect == Init /\ [][NextSelect]_vars

\* the script from its start, with any of the two files present or not;
\* clicks are handled once the window is shown
InitMain ==
    /\ InitController
    /\ process \in {StartedProcess(argv, files) :
                      argv \in Argvs, files \in SUBSET {ImagePath, CheckpointFile}}

Main ==
    /\ process.pc = "start"
    /\ process' = main(process)
    /\ UNCHANGED << xpoints, ypoints, scatter_plot, current_mask, mask_plot,
                    circle_shapes, annotations, all_points,
                    ax_images, ax_collections, ax_artists, ax_texts,
                    next_id, point_ids, op, before, predict_log, solver_log,
                    trace, raised, event >>

LeftClick == process.pc = "show" /\ AddPoint
RightClick == process.pc = "show" /\ RemoveLastPoint

NextMain == Main \/ LeftClick \/ RightClick

SpecMain == InitMain /\ [][NextMain]_vars

\* the session as the canvas drives it: every click goes through on_click
\* with a predictor that answers a click with nothing or with everything
ClickAnswers == {<< [mask |-> m, score |-> 1] >> : m \in {EmptyMask, FullMask}}

OnClick ==
    /\ process.pc = "show"
    /\ \E ev \in MouseEvents, result \in ClickAnswers :
          /\ ev.button = 1 => next_id <= MaxAdds
          /\ Install(on_click(ClickEntry(ev), ev, result))

NextClick == OnClick

SpecClick == Init /\ [][NextClick]_vars

\* The pixel scan over every mask: the first click of a session, anywhere,
\* is answered with one candidate whose mask is any boolean array of any
\* shape up to H x W.
ScanMasks ==
    UNION {[0..(h - 1) -> [0..(w - 1) -> BOOLEAN]] : h \in 1..H, w \in 1..W}

AddScannedPoint ==
    /\ next_id = 1
    /\ \E x \in Coords, y \in Coords, mask \in ScanMasks :
          Install(add_point(Entry("add_point"), x, y, << [mask |-> mask, score |-> 1] >>))

NextScan == AddScannedPoint \/ RemoveLastPoint

SpecScan == Init /\ [][NextScan]_vars

\* A deterministic predictor: the answer is a function of the prompt point.
\* Over the points of Coords x Coords it takes each of the four masks.  The
\* session is one click longer than elsewhere: a click that fails can be
\* followed by two more.
DetMasks == << FullMask, RowMask, EmptyMask, OnePixelMask >>

SamAnswer(x, y) ==
    << [mask |-> DetMasks[(((x - 1) * MaxCoord + (y - 1)) % Len(DetMasks)) + 1],
        score |-> 1] >>

AddPointDet ==
    /\ next_id <= MaxAdds + 1
    /\ \E x \in Coords, y \in Coords :
          Install(add_point(Entry("add_point"), x, y, SamAnswer(x, y)))

\* the prompt of a removal is the point below the top, if there is one
RemoveLastPointDet ==
    /\ Len(xpoints) >= 0
    /\ LET n == Len(xpoints)
           result == IF n > 1 THEN SamAnswer(xpoints[n - 1], ypoints[n - 1])
                     ELSE SamAnswer(1, 1)
       IN  Install(remove_last_point(Entry("remove_last_point"), result))

NextDet == AddPointDet \/ RemoveLastPointDet

SpecDet == Init /\ [][NextDet]_vars

(***************************************************************************)
(* Properties                                                              *)
(***************************************************************************)
Completed == raised = "none"

\* C1: after add_point / remove_last_point calls that returned, the number
\* of stored points, of stored circles and of stored annotations are equal.
C1_StacksInLockStep ==
    Completed =>
        /\ Len(xpoints) = Len(ypoints)
        /\ Len(xpoints) = Len(circle_shapes)
        /\ Len(circle_shapes) = Len(annotations)

\* C2 as stated: after every completed call the controller holds a current
\* mask exactly when the point stack is non-empty.
C2_MaskIffPoints ==
    Completed => ((current_mask # None) <=> (Len(xpoints) > 0))

\* C2: the mask overlay is on display exactly when the point stack is
\* non-empty; a remove_last_point that pops the last point removes the
\* overlay without calling the predictor, and current_mask keeps the mask
\* selected last.
C2_OverlayIffPoints ==
    /\ (mask_plot # None) <=> (Len(xpoints) > 0)
    /\ ax_images = (IF mask_plot = None THEN << >> ELSE << mask_plot[1] >>)
    /\ (op = "remove_last_point" /\ Len(xpoints) = 0) => predict_log = << >>
    /\ (op = "remove_last_point" /\ Len(xpoints) = 0 /\ Len(before.xpoints) = 1)
          => current_mask # None

C2_LastPointPopped ==
    /\ op = "remove_last_point"
    /\ Completed
    /\ Len(before.xpoints) = 1
    /\ xpoints = << >>
    /\ mask_plot = None
    /\ current_mask # None

\* C3: the circle solver is never called on the pixels of a mask that has
\* no foreground pixel.
C3_SolverNeverGetsNoPixels ==
    \A i \in DOMAIN solver_log : solver_log[i] # << >>

\* C4: remove_last_point on an empty point stack raises nothing, leaves the
\* three stacks empty and every field as it was, calls neither the
\* predictor nor the solver nor the renderer and requests no redraw.
C4_RemoveOnEmptyIsNoOp ==
    [][ (op' = "remove_last_point" /\ Len(xpoints) = 0) =>
          /\ raised' = "none"
          /\ xpoints' = << >> /\ ypoints' = << >>
          /\ circle_shapes' = << >> /\ annotations' = << >>
          /\ UNCHANGED << xpoints, ypoints, scatter_plot, current_mask, mask_plot,
                          circle_shapes, annotations, all_points, ax_images,
                          ax_collections, ax_artists, ax_texts, next_id, point_ids >>
          /\ predict_log' = << >>
          /\ solver_log' = << >>
          /\ trace' = << >> ]_vars

C4_RemovedOnEmpty ==
    /\ op = "remove_last_point"
    /\ before.xpoints = << >>
    /\ before.op = "remove_last_point"
    /\ current_mask # None
\* C5: add_point(p) followed at once by remove_last_point() leaves the
\* point stack as it was before the add, and a removal always takes the
\* point added last.
C5_AddThenRemoveRestoresPoints ==
    [][ /\ (op = "add_point" /\ op' = "remove_last_point") =>
              (xpoints' = before.xpoints /\ ypoints' = before.ypoints)
        /\ (op' = "remove_last_point" /\ Len(xpoints) > 0) =>
              (xpoints' = Front(xpoints) /\ ypoints' = Front(ypoints)) ]_vars

C5_AddedThenRemoved ==
    /\ op = "remove_last_point"
    /\ before.op = "add_point"
    /\ Len(before.xpoints) = 2
    /\ before.xpoints[1] # before.xpoints[2]
    /\ before.ypoints[1] # before.ypoints[2]
    /\ xpoints = << before.xpoints[1] >>
    /\ ypoints = << before.ypoints[1] >>

\* C6: every predictor call passes one point, labelled 1, and that point is
\* the top of the point stack at the time of the call.
C6_PromptIsTopOfStack ==
    \A i \in DOMAIN predict_log :
        LET call == predict_log[i]
        IN  /\ Len(call.point_coords) = 1
            /\ call.point_labels = << 1 >>
            /\ call.xpoints # << >>
            /\ call.point_coords[1] = << Last(call.xpoints), Last(call.ypoints) >>
            /\ call.xpoints = xpoints
            /\ call.ypoints = ypoints

C6_PromptedWithSecondPoint ==
    /\ Len(predict_log) = 1
    /\ Len(xpoints) = 2
    /\ xpoints[1] # xpoints[2]
    /\ predict_log[1].point_coords = << << xpoints[2], ypoints[2] >> >>

\* C7: the mask stored as current_mask is a candidate whose score is at
\* least the score of every candidate the predictor returned.
C7_SelectedMaskHasMaxScore ==
    \A i \in DOMAIN predict_log :
        LET result == predict_log[i].result
        IN  \E j \in DOMAIN result :
                /\ current_mask = Some(result[j].mask)
                /\ \A k \in DOMAIN result : result[k].score <= result[j].score

C7_BestCandidateReturnedFirst ==
    /\ Len(predict_log) = 1
    /\ Len(predict_log[1].result) = 2
    /\ predict_log[1].result[1].score > predict_log[1].result[2].score
    /\ predict_log[1].result[1].mask # predict_log[1].result[2].mask
    /\ current_mask = Some(predict_log[1].result[1].mask)

\* C8: a completed remove_last_point on n > 1 points leaves n-1 circles and
\* n-1 annotations, the ones pushed by the add_point calls of the remaining
\* points, in order; the solver is not called and the mask is selected anew
\* for the new top point.
C8_RemoveOnlyPopsTop ==
    (op = "remove_last_point" /\ Completed /\ Len(before.xpoints) > 1) =>
        /\ Len(circle_shapes) = Len(xpoints)
        /\ Len(annotations) = Len(xpoints)
        /\ \A i \in DOMAIN xpoints :
              circle_shapes[i].id = point_ids[i] /\ annotations[i].id = point_ids[i]
        /\ solver_log = << >>
        /\ Len(predict_log) = 1
        /\ current_mask = Some(select_mask(predict_log[1].result))

\* C9: the controller is Empty (no point, no mask shown, no circle or
\* annotation shown) or Active (a point, a mask shown, a circle and an
\* annotation shown); add_point leads to Active, remove_last_point leads to
\* Active from more than one point and to Empty otherwise.
IsEmpty ==
    /\ Len(xpoints) = 0
    /\ ax_images = << >>
    /\ ax_artists = << >>
    /\ ax_texts = << >>

IsActive ==
    /\ Len(xpoints) >= 1
    /\ Len(ax_images) = 1
    /\ Len(ax_artists) >= 1
    /\ Len(ax_texts) >= 1

C9_TwoStateMachine ==
    [][ raised' = "none" =>
          /\ IsEmpty' \/ IsActive'
          /\ op' = "add_point" => IsActive'
          /\ (op' = "remove_last_point" /\ Len(xpoints) > 1) => IsActive'
          /\ (op' = "remove_last_point" /\ Len(xpoints) <= 1) => IsEmpty' ]_vars

\* C10: an add_point whose selected mask has exactly one foreground pixel
\* completes and pushes exactly one circle and one annotation.
C10_SinglePixelMaskIsHandled ==
    (op = "add_point" /\ current_mask # None
        /\ Len(collect_points(current_mask[1])) = 1) =>
        /\ raised = "none"
        /\ Count(trace, "circle_shapes.append") = 1
        /\ Count(trace, "annotations.append") = 1

\* C11: a missing image ends the process with status 1, a missing
\* checkpoint (the image being there) with status 2; the model is loaded
\* and the controller constructed only when both files exist; no file is
\* looked up twice.
C11_StartupValidation ==
    process.pc # "start" =>
        LET image == process.argv # << >> /\ process.argv[1] \in process.files
            checkpoint == CheckpointFile \in process.files
        IN  /\ (process.argv # << >> /\ ~ image) => process.exit_status = Some(1)
            /\ (image /\ ~ checkpoint) =>
                  (process.exit_status = Some(2) /\ process.exit_status # Some(1)
                     /\ process.exit_status # Some(0))
            /\ (process.sam_loaded \/ process.constructed \/ process.pc = "show")
                  <=> (image /\ checkpoint)
            /\ (process.sam_loaded \/ process.constructed) => process.exit_status = None
            /\ \A i, j \in DOMAIN process.exists_log :
                  process.exists_log[i] = process.exists_log[j] => i = j
            /\ process.pc = "exited" => (xpoints = << >> /\ op = "__init__")

C11_CheckpointMissing ==
    /\ process.pc = "exited"
    /\ process.argv = << ImagePath >>
    /\ process.files = {ImagePath}
    /\ process.exists_log = << ImagePath, CheckpointFile >>
    /\ process.exit_status = Some(2)

\* C12: a button-1 release does what add_point does with the coordinates
\* of the event, a button-3 release does what remove_last_point does, and a
\* release of any other button changes no field, calls nothing and
\* requests no redraw.
C12_ClickDispatch ==
    [][ op' = "on_click" =>
          LET ev == event'[1]
              \* what the predictor answered in this step, if it was called
              result == IF predict_log' = << >> THEN << >>
                        ELSE predict_log'[1].result
          IN  /\ ev.button = 1 =>
                    Install(add_point(ClickEntry(ev), ev.xdata, ev.ydata, result))
              /\ ev.button = 3 =>
                    Install(remove_last_point(ClickEntry(ev), result))
              /\ ev.button \notin {1, 3} =>
                    /\ UNCHANGED << xpoints, ypoints, scatter_plot, current_mask,
                                    mask_plot, circle_shapes, annotations, all_points,
                                    ax_images, ax_collections, ax_artists, ax_texts,
                                    next_id, point_ids >>
                    /\ predict_log' = << >>
                    /\ solver_log' = << >>
                    /\ trace' = << >>
                    /\ raised' = "none" ]_vars

C12_MiddleClickOnPoints ==
    /\ op = "on_click"
    /\ event # None
    /\ event[1].button = 2
    /\ before.op = "on_click"
    /\ Len(xpoints) >= 1
    /\ xpoints = before.xpoints
    /\ mask_plot # None

\* C13: a completed add_point appends the point, calls the predictor, calls
\* the solver on the pixels of the selected mask, pushes the circle and the
\* annotation and requests the redraw, in this order and each once; a
\* redraw is requested only with the three stacks of equal length.
Pos(s, e) == CHOOSE i \in DOMAIN s : s[i] = e

C13_AddPointStepOrder ==
    /\ (op = "add_point" /\ Completed) =>
          /\ \A e \in {"xpoints.append", "ypoints.append", "predict", "make_circle",
                       "circle_shapes.append", "annotations.append", "draw_idle"} :
                Count(trace, e) = 1
          /\ Pos(trace, "xpoints.append") < Pos(trace, "ypoints.append")
          /\ Pos(trace, "ypoints.append") < Pos(trace, "predict")
          /\ Pos(trace, "predict") < Pos(trace, "make_circle")
          /\ Pos(trace, "make_circle") < Pos(trace, "circle_shapes.append")
          /\ Pos(trace, "circle_shapes.append") < Pos(trace, "annotations.append")
          /\ Pos(trace, "annotations.append") < Pos(trace, "draw_idle")
          /\ Pos(trace, "draw_idle") = Len(trace)
          /\ solver_log = << collect_points(current_mask[1]) >>
    /\ Count(trace, "draw_idle") > 0 =>
          /\ Len(xpoints) = Len(circle_shapes)
          /\ Len(xpoints) = Len(annotations)

\* C14: the mask overlay is replaced, never accumulated: the axes never show
\* more than one overlay, and after an add_point or a remove_last_point that
\* returned with points left, the one overlay shown is the mask selected
\* from what that call's single predictor call returned for the top point.
C14_MaskOverlayReplaced ==
    /\ Len(ax_images) <= 1
    /\ (Completed /\ op \in {"add_point", "remove_last_point"} /\ Len(xpoints) > 0) =>
          /\ Len(predict_log) = 1
          /\ predict_log[1].point_coords = << << Last(xpoints), Last(ypoints) >> >>
          /\ ax_images = << [mask |-> select_mask(predict_log[1].result)] >>
          /\ mask_plot = Some(ax_images[1])
          /\ current_mask = Some(ax_images[1].mask)

\* a second add_point returned: it removed the first overlay and shows its own
C14_SecondOverlayShown ==
    /\ op = "add_point"
    /\ Completed
    /\ Len(xpoints) = 2
    /\ Count(trace, "mask_plot.remove") = 1
    /\ Count(trace, "imshow") = 1
    /\ Len(ax_images) = 1

\* the cells of a mask that are true, as (x, y)
TrueCells(mask) ==
    {c \in (0..(mask_shape(mask).w - 1)) \X (0..(mask_shape(mask).h - 1)) :
        mask[c[2]][c[1]]}

\* C15: whatever the mask's shape and content, the list add_point hands to
\* the circle solver holds the (x, y) of every true cell once and nothing
\* else, and the pixel count of the roundness is the number of true cells.
C15_SolverGetsTheTrueCells ==
    (op = "add_point" /\ solver_log # << >>) =>
        LET mask == predict_log[1].result[1].mask
            pts == solver_log[1]
        IN  /\ {pts[i] : i \in DOMAIN pts} = TrueCells(mask)
            /\ Len(pts) = Cardinality(TrueCells(mask))
            /\ all_points = Some(pts)
            /\ Completed =>
                  Last(annotations).text.num
                      = Cardinality(TrueCells(mask)) * Sq(Last(circle_shapes).circle.den)

\* the all-true H x W mask was scanned: W * H points went to the solver
C15_FullMaskScanned ==
    /\ op = "add_point"
    /\ Completed
    /\ current_mask = Some(FullMask)
    /\ Len(solver_log[1]) = W * H
    /\ Last(annotations).text.num = W * H * Sq(Last(circle_shapes).circle.den)

\* C16: the mask stored after a predictor call depends on the returned list
\* alone: it is the mask of the candidate that comes last in the returned
\* order among those of the largest score.
C16_LastOfTheBestIsSelected ==
    \A i \in DOMAIN predict_log :
        LET result == predict_log[i].result
            best == {j \in DOMAIN result :
                        \A k \in DOMAIN result : result[k].score <= result[j].score}
            last == CHOOSE j \in best : \A k \in best : k <= j
        IN  /\ current_mask = Some(result[last].mask)
            /\ mask_plot = Some([mask |-> result[last].mask])

\* two candidates of equal score and different masks: the second was taken
C16_TieTakesTheSecond ==
    /\ Len(predict_log) = 1
    /\ Len(predict_log[1].result) = 2
    /\ predict_log[1].result[1].score = predict_log[1].result[2].score
    /\ predict_log[1].result[1].mask # predict_log[1].result[2].mask
    /\ current_mask = Some(predict_log[1].result[2].mask)

\* C17: remove_circle never runs on an empty circle or annotation stack (its
\* [-1] never raises IndexError), whatever add_point and remove_last_point
\* calls came before, aborted ones included; and while points are stored,
\* circles and annotations are stored too.
C17_RemoveCircleFindsItsTop ==
    /\ op = "remove_last_point" => raised # "IndexError"
    /\ Len(xpoints) > 0 => (circle_shapes # << >> /\ annotations # << >>)

Elems(s) == {s[i] : i \in DOMAIN s}

\* C19: after every call that returned, the circles and the annotations on
\* the axes are the circle stack and the annotation stack, each once; a
\* call puts on the stack and on the axes only what was there before or
\* what it has just created, so a popped circle or annotation never comes
\* back.
C19_DisplayIsTheStacks ==
    [][/\ Completed' =>
             /\ ax_artists' = circle_shapes'
             /\ ax_texts' = annotations'
             /\ \A i, j \in DOMAIN circle_shapes' :
                   circle_shapes'[i].id = circle_shapes'[j].id => i = j
             /\ \A i, j \in DOMAIN annotations' :
                   annotations'[i].id = annotations'[j].id => i = j
       /\ \A c \in Elems(circle_shapes) \cup Elems(ax_artists)
                      \cup Elems(annotations) \cup Elems(ax_texts) : c.id < next_id
       /\ \A c \in Elems(circle_shapes') \cup Elems(ax_artists') :
             c \in Elems(circle_shapes) \/ c.id >= next_id
       /\ \A a \in Elems(annotations') \cup Elems(ax_texts') :
             a \in Elems(annotations) \/ a.id >= next_id
       /\ next_id' >= next_id
      ]_vars

\* the second of two circles was popped: the first alone is stored and shown
C19_SecondCirclePopped ==
    /\ op = "remove_last_point"
    /\ Completed
    /\ Count(trace, "circle.remove") = 1
    /\ Count(trace, "annotation.remove") = 1
    /\ next_id = 3
    /\ Len(circle_shapes) = 1
    /\ circle_shapes[1].id = 1
    /\ ax_artists = circle_shapes
    /\ ax_texts = annotations

====
